---- MODULE Spec2Model ----
(***************************************************************************)
(* Model of the togglelabs HTTP handlers: sign-up (PostUser), the          *)
(* feature-flag handlers (PostFeatureFlag, PatchFeatureFlag,               *)
(* ApproveRevision, DeleteFeatureFlag) and the example listing             *)
(* (GetExamples) over the user, feature-flag and example collections of    *)
(* the document store.                                                     *)
(*                                                                         *)
(* Spec      : every handler runs to completion as one step (requests do   *)
(*             not overlap).                                               *)
(* SpecConc  : ApproveRevision is split at its two storage calls on the    *)
(*             flag (FindByID, then UpdateOne), so that requests on the    *)
(*             same flag interleave; PatchFeatureFlag is one atomic $push. *)
(* SpecSignUp: sign-up requests that run to completion one at a time.      *)
(* SpecSignUpConc: PostUser is split at its two storage calls on the user  *)
(*             collection (FindByEmail, then InsertOne).                   *)
(* SpecList  : GetExamples over an example collection of any size up to    *)
(*             MaxExamples.                                                *)
(***************************************************************************)
EXTENDS Integers, Sequences, FiniteSets, TLC

VARIABLES
    flags,      \* feature-flag collection: flag id -> stored document
    nextRev,    \* next fresh revision id (primitive.NewObjectID)
    users,      \* user collection: sequence of stored user documents
    inflight,   \* request slot -> handler suspended between two storage calls
    examples,   \* example collection: sequence of stored documents, in natural order
    last        \* the request that completed last: inputs, response, store before it

vars == <<flags, nextRev, users, inflight, examples, last>>

(***************************** bounds **************************************)
MaxRevs == 3         \* revision ids that can be allocated
MaxVersion == 3      \* approvals are not started past this version
MaxUsers == 3        \* user documents that can be inserted
MaxExamples == 5     \* documents in the example collection
MaxPage == 3         \* largest page query parameter
MaxPageSize == 3     \* largest page_size query parameter

(***************************** identifiers *********************************)
NoUser == "nouser"          \* no user id in the request context
BadHex == "badhex"          \* an organizationID or featureFlagID that is not an ObjectID hex
BadId == 0                  \* a revisionID parameter that is not an ObjectID hex
Users == {"u1", "u2"}
Orgs == {"o1", "o2"}
UnknownOrg == "o9"          \* well-formed id of no stored organization
\* Handlers address a flag document by _id and never read or write another
\* document, so the collection is followed through one flag, created by the
\* first successful PostFeatureFlag; before that its id names no stored flag.
FlagId == "f1"
RevIds == 1..MaxRevs
\* The properties of overlapping requests concern two requests in flight.
Slots == {1, 2}
Emails == {"a@x", "b@x"}
Passwords == {"p", "q"}

Draft == "draft"
Live == "live"
ReadOnly == "ReadOnly"
Collaborator == "Collaborator"

NoFault == "none"

(***************************** organizations *******************************)
\* Organizations are created outside the handlers modelled here and are only
\* read by them: u1 is Collaborator of o1 and no member of o2; u2 is ReadOnly
\* in o1 and Collaborator of o2.
Organizations ==
    [o \in Orgs |->
        IF o = "o1"
        THEN [members |-> {[user |-> "u1", role |-> Collaborator],
                           [user |-> "u2", role |-> ReadOnly]}]
        ELSE [members |-> {[user |-> "u2", role |-> Collaborator]}]]

RoleLevel(role) == IF role = Collaborator THEN 2 ELSE 1

\* apiutils.UserHasPermission(userID, organization, required)
UserHasPermission(userID, organization, required) ==
    \E m \in organization.members :
        m.user = userID /\ RoleLevel(m.role) >= RoleLevel(required)

\* organizationModel.FindByID: TRUE when the lookup returns a record
OrgFound(organizationID, fault) ==
    organizationID \in Orgs /\ fault # "orgFind"

(***************************** responses ***********************************)
Response(op, req, code) ==
    [op |-> op, req |-> req, code |-> code, pre |-> flags]

Respond(op, req, code) == last' = Response(op, req, code)

\* Authorize with the permission check asking for ReadOnly only.
AuthorizeReadOnly(userID, organizationID, fault) ==
    IF userID = NoUser THEN "Unauthorized"
    ELSE IF organizationID = BadHex THEN "BadRequest"
    ELSE IF ~OrgFound(organizationID, fault) THEN "InternalServerError"
    ELSE IF ~UserHasPermission(userID, Organizations[organizationID], ReadOnly)
         THEN "Forbidden"
    ELSE "pass"

\* The part every flag-mutating handler starts with: acting user, organization
\* id, organization lookup, Collaborator permission.  "pass" when the handler
\* goes on, else the status it answers with.
Authorize(userID, organizationID, fault) ==
    IF userID = NoUser THEN "Unauthorized"
    ELSE IF organizationID = BadHex THEN "BadRequest"
    ELSE IF ~OrgFound(organizationID, fault) THEN "InternalServerError"
    ELSE IF ~UserHasPermission(userID, Organizations[organizationID], Collaborator)
         THEN "Forbidden"
    ELSE "pass"

(***************************** feature-flag store **************************)
\* featureFlagModel.FindByID: TRUE when the lookup returns a record.  Soft
\* deleted records remain queryable by identifier.
FlagFound(featureFlagID, fault) ==
    featureFlagID \in DOMAIN flags /\ fault # "flagFind"

\* featureFlagModel.UpdateOne with filter {_id: featureFlagID}: TRUE when the
\* update is applied.
UpdateApplies(featureFlagID, fault) ==
    featureFlagID \in DOMAIN flags /\ fault # "update"

\* models.NewRevisionRecord: a Draft revision under a fresh id
NewRevisionRecord(id) == [id |-> id, status |-> Draft]

\* models.NewFeatureFlagRecord: owner organization, initial version, and the
\* revision list (empty, or seeded with one revision).
NewFeatureFlagRecord(organizationID, seed, id) ==
    [org |-> organizationID, version |-> 1, deleted |-> FALSE,
     revisions |-> IF seed = "empty" THEN <<>>
                   ELSE <<[NewRevisionRecord(id) EXCEPT !.status = seed]>>]

LiveCount(revisions) ==
    Cardinality({i \in DOMAIN revisions : revisions[i].status = Live})

RevisionIds(revisions) == {revisions[i].id : i \in DOMAIN revisions}

(***************************** PostFeatureFlag *****************************)
PostFeatureFlag(req) ==
    LET auth == Authorize(req.user, req.org, req.fault)
        code == IF auth # "pass" THEN auth
                ELSE IF req.body = "unbindable" THEN "BadRequest"
                ELSE IF req.body = "invalid" THEN "BadRequest"
                ELSE IF req.fault = "insert" THEN "InternalServerError"
                ELSE "Created"
        seeded == code = "Created" /\ req.seed # "empty"
    IN  /\ code = "Created" => flags = <<>>
        /\ seeded => nextRev <= MaxRevs
        /\ flags' = IF code = "Created"
                    THEN FlagId :> NewFeatureFlagRecord(req.org, req.seed, nextRev)
                    ELSE flags
        /\ nextRev' = IF seeded THEN nextRev + 1 ELSE nextRev
        /\ Respond("Post", req, code)
        /\ UNCHANGED <<users, inflight, examples>>

(***************************** PatchFeatureFlag ****************************)
PatchFeatureFlag(req) ==
    LET auth == Authorize(req.user, req.org, req.fault)
        code == IF auth # "pass" THEN auth
                ELSE IF req.flag = BadHex THEN "BadRequest"
                ELSE IF req.body = "unbindable" THEN "BadRequest"
                ELSE IF ~UpdateApplies(req.flag, req.fault) THEN "InternalServerError"
                ELSE "OK"
    IN  /\ code = "OK" => nextRev <= MaxRevs
        /\ nextRev' = IF code = "OK" THEN nextRev + 1 ELSE nextRev
        /\ flags' = IF code = "OK"
                    THEN [flags EXCEPT ![req.flag].revisions =
                              Append(@, NewRevisionRecord(nextRev))]
                    ELSE flags
        /\ Respond("Patch", req, code)
        /\ UNCHANGED <<users, inflight, examples>>

(***************************** ApproveRevision *****************************)
\* ApproveStatus without the promotion of the target.
ApproveStatusNoPromote(revision, revisionID) ==
    IF revision.status = Live THEN Draft ELSE revision.status

\* ApproveStatus without the demotion of Live revisions.
ApproveStatusNoDemote(revision, revisionID) ==
    IF revision.id = revisionID /\ revision.status # Live
    THEN Live
    ELSE revision.status

\* One iteration of the loop over featureFlagRecord.Revisions.  `revision` is
\* the range variable, a copy of the element taken before the body runs: the
\* second test reads the status the element had, not the one just assigned.
ApproveStatus(revision, revisionID) ==
    LET demoted == IF revision.status = Live THEN Draft ELSE revision.status
    IN  IF revision.id = revisionID /\ revision.status # Live
        THEN Live
        ELSE demoted

\* ApproveLoop that leaves the list alone when the target is not in it.
ApproveLoopIfPresent(revisions, revisionID) ==
    IF \E i \in DOMAIN revisions : revisions[i].id = revisionID
    THEN [index \in DOMAIN revisions |->
            [revisions[index] EXCEPT
                !.status = ApproveStatus(revisions[index], revisionID)]]
    ELSE revisions

ApproveLoop(revisions, revisionID) ==
    [index \in DOMAIN revisions |->
        [revisions[index] EXCEPT !.status = ApproveStatus(revisions[index], revisionID)]]

\* The handler up to and including featureFlagModel.FindByID.
ApproveLoadCode(req) ==
    LET auth == Authorize(req.user, req.org, req.fault)
    IN  IF auth # "pass" THEN auth
        ELSE IF req.flag = BadHex THEN "BadRequest"
        ELSE IF req.rev = BadId THEN "BadRequest"
        ELSE IF ~FlagFound(req.flag, req.fault) THEN "InternalServerError"
        ELSE "pass"

\* ApproveRecord that increments the version only when a status changed.
ApproveRecordBumpOnChange(featureFlagRecord, revisionID) ==
    LET revisions == ApproveLoop(featureFlagRecord.revisions, revisionID)
    IN  [featureFlagRecord EXCEPT
            !.revisions = revisions,
            !.version = IF revisions = featureFlagRecord.revisions
                        THEN featureFlagRecord.version
                        ELSE featureFlagRecord.version + 1]

\* featureFlagRecord after the loop and Version++
ApproveRecord(featureFlagRecord, revisionID) ==
    [featureFlagRecord EXCEPT
        !.revisions = ApproveLoop(featureFlagRecord.revisions, revisionID),
        !.version = featureFlagRecord.version + 1]

\* ApproveWriteBack that sets the status of the promoted revision only and
\* leaves the other stored revisions as they are.
ApproveWriteBackPromoteOnly(featureFlagID, featureFlagRecord) ==
    [flags EXCEPT
        ![featureFlagID].version = featureFlagRecord.version,
        ![featureFlagID].revisions =
            [i \in DOMAIN @ |->
                IF \E j \in DOMAIN featureFlagRecord.revisions :
                      /\ featureFlagRecord.revisions[j].id = @[i].id
                      /\ featureFlagRecord.revisions[j].status = Live
                THEN [@[i] EXCEPT !.status = Live]
                ELSE @[i]]]

\* ApproveWriteBack that increments the stored version ($inc) instead of
\* setting the version computed from the loaded record.
ApproveWriteBackInc(featureFlagID, featureFlagRecord) ==
    [flags EXCEPT ![featureFlagID].version = @ + 1,
                  ![featureFlagID].revisions = featureFlagRecord.revisions]

\* UpdateOne with $set of version and revisions taken from featureFlagRecord
ApproveWriteBack(featureFlagID, featureFlagRecord) ==
    [flags EXCEPT ![featureFlagID].version = featureFlagRecord.version,
                  ![featureFlagID].revisions = featureFlagRecord.revisions]

ApproveRevision(req) ==
    LET load == ApproveLoadCode(req)
        code == IF load # "pass" THEN load
                ELSE IF ~UpdateApplies(req.flag, req.fault) THEN "InternalServerError"
                ELSE "OK"
    IN  /\ load = "pass" => flags[req.flag].version < MaxVersion
        /\ flags' = IF code = "OK"
                    THEN ApproveWriteBack(req.flag,
                             ApproveRecord(flags[req.flag], req.rev))
                    ELSE flags
        /\ Respond("Approve", req, code)
        /\ UNCHANGED <<nextRev, users, inflight, examples>>

(***************************** DeleteFeatureFlag ***************************)
DeleteFeatureFlag(req) ==
    LET auth == Authorize(req.user, req.org, req.fault)
        code == IF auth # "pass" THEN auth
                ELSE IF req.flag = BadHex THEN "BadRequest"
                ELSE IF ~UpdateApplies(req.flag, req.fault) THEN "InternalServerError"
                ELSE "NoContent"
    IN  /\ flags' = IF code = "NoContent"
                    THEN [flags EXCEPT ![req.flag].deleted = TRUE]
                    ELSE flags
        /\ Respond("Delete", req, code)
        /\ UNCHANGED <<nextRev, users, inflight, examples>>

(***************************** requests ************************************)
Actors == Users \cup {NoUser}
OrgParams == Orgs \cup {UnknownOrg, BadHex}
FlagParams == {FlagId, BadHex}
RevParams == RevIds \cup {BadId}
Bodies == {"ok", "unbindable", "invalid"}

\* A handler reads its inputs in order and answers at the first one it
\* rejects; the inputs it does not reach cannot influence it.  Requests are
\* enumerated in a normal form that leaves an unreachable path parameter
\* malformed, an unreachable body "ok", and lets a storage call fail only if
\* the handler can reach it.  The permission check is not part of the normal
\* form: a request the handler answers Forbidden carries every parameter.
ReadsOrg(req) == req.user # NoUser
ReadsFlag(req) == ReadsOrg(req) /\ req.org \in Orgs /\ req.fault # "orgFind"

PostRequests ==
    {req \in [user : Actors, org : OrgParams, body : Bodies,
              fault : {NoFault, "orgFind", "insert"},
              seed : {"empty", Draft, Live}] :
        /\ ~ReadsOrg(req) => req.org = BadHex
        /\ ~ReadsFlag(req) => req.body = "ok"
        /\ req.fault = "orgFind" => ReadsOrg(req) /\ req.org \in Orgs
        /\ req.fault = "insert" => ReadsFlag(req) /\ req.body = "ok"
        /\ ~(ReadsFlag(req) /\ req.body = "ok" /\ req.fault = NoFault)
              => req.seed = "empty"}

PatchRequests ==
    {req \in [user : Actors, org : OrgParams, flag : FlagParams, body : Bodies,
              fault : {NoFault, "orgFind", "update"}] :
        /\ ~ReadsOrg(req) => req.org = BadHex
        /\ ~ReadsFlag(req) => req.flag = BadHex
        /\ req.flag = BadHex => req.body = "ok"
        /\ req.fault = "orgFind" => ReadsOrg(req) /\ req.org \in Orgs
        /\ req.fault = "update" =>
              ReadsFlag(req) /\ req.flag # BadHex /\ req.body # "unbindable"}

ApproveRequests ==
    {req \in [user : Actors, org : OrgParams, flag : FlagParams, rev : RevParams,
              fault : {NoFault, "orgFind", "flagFind", "update"}] :
        /\ ~ReadsOrg(req) => req.org = BadHex
        /\ ~ReadsFlag(req) => req.flag = BadHex
        /\ req.flag = BadHex => req.rev = BadId
        /\ req.fault = "orgFind" => ReadsOrg(req) /\ req.org \in Orgs
        /\ req.fault \in {"flagFind", "update"} =>
              ReadsFlag(req) /\ req.flag # BadHex /\ req.rev # BadId}

DeleteRequests ==
    {req \in [user : Actors, org : OrgParams, flag : FlagParams,
              fault : {NoFault, "orgFind", "update"}] :
        /\ ~ReadsOrg(req) => req.org = BadHex
        /\ ~ReadsFlag(req) => req.flag = BadHex
        /\ req.fault = "orgFind" => ReadsOrg(req) /\ req.org \in Orgs
        /\ req.fault = "update" => ReadsFlag(req) /\ req.flag # BadHex}

(***************************** specification *******************************)
Idle == [op |-> "idle"]

Init ==
    /\ flags = <<>>
    /\ nextRev = 1
    /\ users = <<>>
    /\ inflight = [slot \in Slots |-> Idle]
    /\ examples = <<>>
    /\ last = [op |-> "none"]

Post == \E req \in PostRequests : PostFeatureFlag(req)

Patch == \E req \in PatchRequests : PatchFeatureFlag(req)

Approve == \E req \in ApproveRequests : ApproveRevision(req)

Delete == \E req \in DeleteRequests : DeleteFeatureFlag(req)

Next == Post \/ Patch \/ Approve \/ Delete

Spec == Init /\ [][Next]_vars

(***************************** overlapping requests ************************)
\* The overlapping requests are those of one Collaborator in its own
\* organization, with well-formed parameters and no failing storage call: no
\* step after the permission check reads who sent the request.
ConcRequest(fields) ==
    [user |-> "u1", org |-> "o1", fault |-> NoFault] @@ fields

\* ApproveRevision up to featureFlagModel.FindByID and the loop: the handler
\* now holds featureFlagRecord in memory, of which UpdateOne will use version
\* and revisions.  `raced` and `rival` are history: since the load, another
\* approval of the same flag was written back (raced), one of them with a
\* different target, both targets being in the list this handler loaded
\* (rival).  Slots are interchangeable; a request takes the lowest idle one.
ApproveLoad(slot, req) ==
    /\ inflight[slot] = Idle
    /\ \A lower \in Slots : lower < slot => inflight[lower] # Idle
    /\ ApproveLoadCode(req) = "pass"
    /\ flags[req.flag].version < MaxVersion
    /\ inflight' = [inflight EXCEPT ![slot] =
            [op |-> "approve", flag |-> req.flag, rev |-> req.rev,
             featureFlagRecord |-> ApproveRecord(flags[req.flag], req.rev),
             raced |-> FALSE, rival |-> FALSE]]
    /\ UNCHANGED <<flags, nextRev, users, examples, last>>

\* ApproveRevision from UpdateOne to the response.
ApproveWrite(slot) ==
    LET held == inflight[slot]
    IN  /\ held.op = "approve"
        /\ flags' = ApproveWriteBack(held.flag, held.featureFlagRecord)
        /\ last' = [op |-> "ApproveWrite", code |-> "OK",
                    flag |-> held.flag, rev |-> held.rev,
                    loadedVersion |-> held.featureFlagRecord.version - 1,
                    preVersion |-> flags[held.flag].version,
                    raced |-> held.raced, rival |-> held.rival]
        /\ inflight' = [other \in DOMAIN inflight |->
                IF other = slot THEN Idle
                ELSE IF inflight[other].op = "approve"
                        /\ inflight[other].flag = held.flag
                     THEN [inflight[other] EXCEPT
                            !.raced = TRUE,
                            !.rival = @ \/
                                (/\ held.rev # inflight[other].rev
                                 /\ {held.rev, inflight[other].rev} \subseteq
                                      RevisionIds(inflight[other].featureFlagRecord.revisions))]
                     ELSE inflight[other]]
        /\ UNCHANGED <<nextRev, users, examples>>

ConcPost ==
    \E seed \in {"empty", Draft, Live} :
        PostFeatureFlag(ConcRequest([body |-> "ok", seed |-> seed]))

ConcPatch ==
    PatchFeatureFlag(ConcRequest([flag |-> FlagId, body |-> "ok"]))

ConcLoad ==
    \E slot \in Slots, revisionID \in RevIds :
        ApproveLoad(slot, ConcRequest([flag |-> FlagId, rev |-> revisionID]))

ConcWrite == \E slot \in Slots : ApproveWrite(slot)

NextConc == ConcPost \/ ConcPatch \/ ConcLoad \/ ConcWrite

SpecConc == Init /\ [][NextConc]_vars

(***************************** PostUser (sign-up) **************************)
\* bcrypt.GenerateFromPassword: a hash that verifies against the password
Hash(password) == <<"bcrypt", password>>

\* models.NewUserRecord: the document to store, with the password hashed
NewUserRecord(email, password) == [email |-> email, password |-> Hash(password)]

\* model.FindByEmail returns a record and no error
FindByEmail(email, fault) ==
    /\ \E i \in DOMAIN users : users[i].email = email
    /\ fault # "find"

PostUser(req) ==
    LET conflict == FindByEmail(req.email, req.fault)
        inserted == /\ req.body = "ok"
                    /\ ~conflict
                    /\ req.fault \notin {"hash", "insert"}
        code == IF req.body = "unbindable" THEN "BadRequest"
                ELSE IF conflict THEN "Conflict"
                ELSE IF req.fault \in {"hash", "insert", "jwt"}
                     THEN "InternalServerError"
                ELSE "Created"
    IN  /\ inserted => Len(users) < MaxUsers
        /\ users' = IF inserted
                    THEN Append(users, NewUserRecord(req.email, req.password))
                    ELSE users
        /\ last' = [op |-> "SignUp", req |-> req, code |-> code, pre |-> users]
        /\ UNCHANGED <<flags, nextRev, inflight, examples>>

SignUpRequests ==
    {req \in [email : Emails, password : Passwords, body : {"ok", "unbindable"},
              fault : {NoFault, "find", "hash", "insert", "jwt"}] :
        req.body = "unbindable" =>
            req.email = "a@x" /\ req.password = "p" /\ req.fault = NoFault}

SignUp == \E req \in SignUpRequests : PostUser(req)

NextSignUp == SignUp

SpecSignUp == Init /\ [][NextSignUp]_vars

(***************************** overlapping sign-ups ************************)
\* PostUser up to model.FindByEmail, with a body that binds and no failing
\* call.  A registered email is answered Conflict at once; otherwise the
\* handler goes on to InsertOne, which is a later step.  `overlapped` is
\* history: since this lookup, another sign-up for the same email inserted
\* its record and answered Created.
SignUpFind(slot, req) ==
    /\ inflight[slot] = Idle
    /\ \A lower \in Slots : lower < slot => inflight[lower] # Idle
    /\ IF FindByEmail(req.email, req.fault)
       THEN /\ last' = [op |-> "SignUpFind", req |-> req, code |-> "Conflict",
                        pre |-> users, overlapped |-> FALSE]
            /\ UNCHANGED inflight
       ELSE /\ inflight' = [inflight EXCEPT ![slot] =
                    [op |-> "signup", req |-> req, overlapped |-> FALSE]]
            /\ UNCHANGED last
    /\ UNCHANGED <<flags, nextRev, users, examples>>

\* PostUser from models.NewUserRecord and model.InsertOne to the response.
SignUpInsert(slot) ==
    LET held == inflight[slot]
    IN  /\ held.op = "signup"
        /\ Len(users) < MaxUsers
        /\ users' = Append(users, NewUserRecord(held.req.email, held.req.password))
        /\ last' = [op |-> "SignUpInsert", req |-> held.req, code |-> "Created",
                    pre |-> users, overlapped |-> held.overlapped]
        /\ inflight' = [other \in DOMAIN inflight |->
                IF other = slot THEN Idle
                ELSE IF inflight[other].op = "signup"
                        /\ inflight[other].req.email = held.req.email
                     THEN [inflight[other] EXCEPT !.overlapped = TRUE]
                     ELSE inflight[other]]
        /\ UNCHANGED <<flags, nextRev, examples>>

ConcSignUpRequests ==
    [email : Emails, password : Passwords, body : {"ok"}, fault : {NoFault}]

ConcFind == \E slot \in Slots, req \in ConcSignUpRequests : SignUpFind(slot, req)

ConcInsert == \E slot \in Slots : SignUpInsert(slot)

NextSignUpConc == ConcFind \/ ConcInsert

SpecSignUpConc == Init /\ [][NextSignUpConc]_vars

(***************************** GetExamples (listing) ***********************)
\* The handlers modelled here never write the example collection: it holds
\* the documents stored before the first request, in natural order.
ExampleRecord(i) == [id |-> i]

Collection(n) == [i \in 1..n |-> ExampleRecord(i)]

\* page_size used when the query parameter is absent or not a positive number
DefaultPageSize == 10

\* api_utils.GetPaginationParams: page >= 1 and page_size > 0 pass through; an
\* absent or invalid parameter (0 here) gets its default.
GetPaginationParams(pageQuery, limitQuery) ==
    [page |-> IF pageQuery >= 1 THEN pageQuery ELSE 1,
     limit |-> IF limitQuery >= 1 THEN limitQuery ELSE DefaultPageSize]

\* collection.Find with SetSkip and SetLimit: the documents the cursor yields
Find(collection, skip, limit) ==
    LET upto == IF skip + limit < Len(collection) THEN skip + limit
                ELSE Len(collection)
    IN  IF skip >= Len(collection) THEN <<>>
        ELSE SubSeq(collection, skip + 1, upto)

\* cursor.All on a cursor that cursor.Next has advanced to its first
\* document.  The driver documents that previously iterated documents are
\* not included ("remaining"); a driver that decodes the whole current batch
\* returns the first document as well ("batch").  Both outcomes are kept.
CursorAllOutcomes == {"remaining", "batch"}

CursorAll(found, outcome) ==
    IF outcome = "remaining" THEN Tail(found) ELSE found

GetExamples(req, outcome) ==
    LET params == GetPaginationParams(req.page, req.page_size)
        found == Find(examples, (params.page - 1) * params.limit, params.limit)
        advanced == found # <<>>            \* cursor.Next returned true
        code == IF req.fault = "find" THEN "InternalServerError"
                ELSE IF advanced /\ req.fault = "all" THEN "InternalServerError"
                ELSE "OK"
        records == IF advanced THEN CursorAll(found, outcome) ELSE <<>>
    IN  /\ last' = IF code = "OK"
                   THEN [op |-> "GetExamples", req |-> req, code |-> code,
                         data |-> records, page |-> params.page,
                         page_size |-> params.limit, total |-> Len(records)]
                   ELSE [op |-> "GetExamples", req |-> req, code |-> code]
        /\ UNCHANGED <<flags, nextRev, users, inflight, examples>>

ListRequests ==
    [page : 0..MaxPage, page_size : 0..MaxPageSize, fault : {NoFault, "find", "all"}]

InitList ==
    /\ flags = <<>>
    /\ nextRev = 1
    /\ users = <<>>
    /\ inflight = [slot \in Slots |-> Idle]
    /\ examples \in {Collection(n) : n \in 0..MaxExamples}
    /\ last = [op |-> "none"]

List == \E req \in ListRequests, outcome \in CursorAllOutcomes : GetExamples(req, outcome)

NextList == List

SpecList == InitList /\ [][NextList]_vars

(***************************** properties **********************************)
\* The last request was an ApproveRevision answered 200 OK.
Approved == last.op = "Approve" /\ last.code = "OK"

PreRevisions == last.pre[last.req.flag].revisions
PostRevisions == flags[last.req.flag].revisions

StatusOf(revisions, id) ==
    {revisions[i].status : i \in {j \in DOMAIN revisions : revisions[j].id = id}}

SameRevisionIds(before, after) ==
    /\ Len(before) = Len(after)
    /\ \A i \in DOMAIN before : before[i].id = after[i].id

\* The role the organization named in the request gives the acting user is
\* below Collaborator: a ReadOnly member or no member at all.
BelowCollaborator(userID, organizationID) ==
    \A m \in Organizations[organizationID].members :
        m.user = userID => m.role # Collaborator

\* The request names an authenticated Collaborator of an existing organization
\* and an existing flag, and no storage call fails.
Serviceable(req) ==
    /\ req.user \in Users /\ req.org \in Orgs
    /\ ~BelowCollaborator(req.user, req.org)
    /\ req.flag \in DOMAIN last.pre
    /\ req.fault = NoFault

\* C1's case: the target is Draft and exactly one revision is Live.
C1_Case ==
    /\ Approved
    /\ StatusOf(PreRevisions, last.req.rev) = {Draft}
    /\ LiveCount(PreRevisions) = 1

\* C1: ApproveRevision of a Draft target R on a flag with exactly one Live
\* revision L leaves exactly one Live revision, R, and every other revision
\* (L included) Draft.
C1_ApprovePromotesTarget ==
    C1_Case =>
        /\ SameRevisionIds(PreRevisions, PostRevisions)
        /\ LiveCount(PostRevisions) = 1
        /\ \A i \in DOMAIN PostRevisions :
              PostRevisions[i].status =
                  IF PostRevisions[i].id = last.req.rev THEN Live ELSE Draft

C1_Witness ==
    /\ C1_Case
    /\ Len(PreRevisions) >= 3
    /\ StatusOf(PostRevisions, last.req.rev) = {Live}
    /\ \E i \in DOMAIN PreRevisions :
          PreRevisions[i].status = Live /\ PostRevisions[i].status = Draft

\* C2: approving the revision that is already Live leaves it Live.  Stated
\* for a target behind the first position of the list: such a revision was
\* appended as Draft by PatchFeatureFlag and made Live by an earlier approval,
\* so this approval is the second of the same revision.
C2_ApproveLiveStaysLive ==
    (/\ Approved
     /\ StatusOf(PreRevisions, last.req.rev) = {Live}
     /\ \E i \in DOMAIN PreRevisions : i >= 2 /\ PreRevisions[i].id = last.req.rev)
        => StatusOf(PostRevisions, last.req.rev) = {Live}

\* C3: after any sequence of Patch, ApproveRevision and soft-delete requests
\* that do not overlap, the stored revision list has at most one Live revision.
C3_AtMostOneLive ==
    \A f \in DOMAIN flags : LiveCount(flags[f].revisions) <= 1

C3_Witness ==
    /\ FlagId \in DOMAIN flags
    /\ flags[FlagId].deleted
    /\ flags[FlagId].version >= 3
    /\ Len(flags[FlagId].revisions) >= 3
    /\ LiveCount(flags[FlagId].revisions) = 1

\* C7's case: a serviceable ApproveRevision whose target is not in the list.
C7_Case ==
    /\ last.op = "Approve"
    /\ Serviceable(last.req)
    /\ last.req.rev # BadId
    /\ last.req.rev \notin RevisionIds(PreRevisions)

\* C7: ApproveRevision whose target id is not in the revision list still
\* answers OK and leaves no Live revision: every revision is Draft.
C7_AbsentTargetDemotesAll ==
    C7_Case =>
        /\ last.code = "OK"
        /\ SameRevisionIds(PreRevisions, PostRevisions)
        /\ \A i \in DOMAIN PostRevisions : PostRevisions[i].status = Draft

C7_Witness ==
    /\ C7_Case
    /\ last.code = "OK"
    /\ LiveCount(PreRevisions) = 1
    /\ LiveCount(PostRevisions) = 0

\* C8: every ApproveRevision answered OK raises the stored version by exactly
\* one, whatever happened to the statuses; PatchFeatureFlag and
\* DeleteFeatureFlag leave the version as it was.
C8_VersionPlusOne ==
    /\ Approved =>
          flags[last.req.flag].version = last.pre[last.req.flag].version + 1
    /\ last.op \in {"Patch", "Delete"} =>
          \A f \in DOMAIN last.pre :
              f \in DOMAIN flags /\ flags[f].version = last.pre[f].version

C8_Witness ==
    /\ Approved
    /\ PostRevisions = PreRevisions
    /\ Len(PreRevisions) >= 1
    /\ flags[last.req.flag].version = last.pre[last.req.flag].version + 1

\* C9's case: a flag-mutating request of an authenticated user whose role in
\* the (found) organization of the request path is below Collaborator.
C9_Case ==
    /\ last.op \in {"Post", "Patch", "Approve", "Delete"}
    /\ last.req.user \in Users
    /\ last.req.org \in Orgs
    /\ last.req.fault # "orgFind"
    /\ BelowCollaborator(last.req.user, last.req.org)

\* C9: PostFeatureFlag, PatchFeatureFlag, ApproveRevision and DeleteFeatureFlag
\* answer Forbidden and leave the stored flags unchanged when the acting user
\* is below Collaborator in the organization of the request path.
C9_BelowCollaboratorForbidden ==
    C9_Case => last.code = "Forbidden" /\ flags = last.pre

C9_Witness ==
    /\ C9_Case
    /\ last.op = "Approve"
    /\ last.req.flag \in DOMAIN flags
    /\ last.req.rev \in RevisionIds(flags[last.req.flag].revisions)
    /\ last.code = "Forbidden"

\* The last step was the write-back of an ApproveRevision that overlapped
\* another approval of the same flag: that one was written back between this
\* one's load and its own write-back.
RacedWrite == last.op = "ApproveWrite" /\ last.raced

\* C4's case: the two overlapping approvals have different targets, both in
\* the revision list.
C4_Case == RacedWrite /\ last.rival

\* C4 (as amended): overlapping approvals leave at most one Live revision in
\* the stored flag, and every handler holds at most one in memory; the later
\* write-back replaces the whole list, so only its target can be Live.
C4_RaceKeepsAtMostOneLive ==
    /\ \A f \in DOMAIN flags : LiveCount(flags[f].revisions) <= 1
    /\ \A slot \in Slots :
          inflight[slot].op = "approve" =>
              LiveCount(inflight[slot].featureFlagRecord.revisions) <= 1
    /\ C4_Case =>
          \A i \in DOMAIN flags[last.flag].revisions :
              flags[last.flag].revisions[i].status = Live =>
                  flags[last.flag].revisions[i].id = last.rev

C4_Witness ==
    /\ C4_Case
    /\ StatusOf(flags[last.flag].revisions, last.rev) = {Live}
    /\ LiveCount(flags[last.flag].revisions) = 1
    /\ Len(flags[last.flag].revisions) >= 2

\* C4 (original): two approvals whose load and write-back interleave leave
\* more than one Live revision.  Stated for the overlap most favourable to
\* it: different targets, both in the list.
C4_RaceLeavesTwoLive ==
    C4_Case => LiveCount(flags[last.flag].revisions) > 1

\* C5's case: the approval written back meanwhile started from the version
\* this one loaded.
C5_Case == RacedWrite /\ last.preVersion = last.loadedVersion + 1

\* C5: of two overlapping approvals that loaded the same version, the second
\* write-back answers OK and stores the version the first one stored: the
\* version ends 1 above the loaded one, not 2.
C5_RaceLosesVersionUpdate ==
    C5_Case =>
        /\ last.code = "OK"
        /\ flags[last.flag].version = last.preVersion
        /\ flags[last.flag].version = last.loadedVersion + 1

C5_Witness ==
    /\ C5_Case
    /\ last.code = "OK"
    /\ flags[last.flag].version = last.loadedVersion + 1

\* C6: a revision appended by a successful PatchFeatureFlag (or seeded at
\* creation) stays in the stored revision list: every revision id handed out
\* so far is in the list.
C6_RevisionsNeverDeleted ==
    FlagId \in DOMAIN flags =>
        RevisionIds(flags[FlagId].revisions) = 1..(nextRev - 1)

\* C10, first half: sign-up with an email that is already registered answers
\* Conflict and leaves the user collection unchanged.
C10_RegisteredEmailConflict ==
    (/\ last.op = "SignUp"
     /\ last.req.body = "ok"
     /\ \E i \in DOMAIN last.pre : last.pre[i].email = last.req.email)
        => last.code = "Conflict" /\ users = last.pre

\* C10 when no call of the handler fails: Conflict and no change for a
\* registered email, Created and exactly one new record otherwise.
C10_SignUpWithoutFaults ==
    (last.op = "SignUp" /\ last.req.body = "ok" /\ last.req.fault = NoFault) =>
        IF \E i \in DOMAIN last.pre : last.pre[i].email = last.req.email
        THEN last.code = "Conflict" /\ users = last.pre
        ELSE /\ last.code = "Created"
             /\ users = Append(last.pre,
                           NewUserRecord(last.req.email, last.req.password))

\* C11: PatchFeatureFlag of a Collaborator with well-formed organization and
\* flag ids, whose body binds but fails validation (a rule that is not
\* individually valid), answers BadRequest and appends no revision.  Stated
\* for a stored flag and no failing storage call.
C11_PatchInvalidBodyBadRequest ==
    (/\ last.op = "Patch"
     /\ last.req.body = "invalid"
     /\ last.req.user \in Users /\ last.req.org \in Orgs
     /\ last.req.fault = NoFault
     /\ ~BelowCollaborator(last.req.user, last.req.org)
     /\ last.req.flag \in DOMAIN last.pre)
        => last.code = "BadRequest" /\ flags = last.pre

\* C12: PatchFeatureFlag, ApproveRevision and DeleteFeatureFlag change a
\* stored flag only when the acting user is Collaborator of the organization
\* that owns the flag.
C12_MutationsScopedToOwner ==
    (/\ last.op \in {"Patch", "Approve", "Delete"}
     /\ flags # last.pre)
        => UserHasPermission(last.req.user,
                             Organizations[last.pre[last.req.flag].org],
                             Collaborator)

\* C13: under overlapping sign-ups the user collection holds at most one
\* record per email, and a sign-up that overlapped another one for the same
\* email which answered Created does not answer Created itself.
C13_EmailUniqueUnderOverlap ==
    /\ \A i, j \in DOMAIN users : users[i].email = users[j].email => i = j
    /\ (last.op = "SignUpInsert" /\ last.overlapped) => last.code # "Created"

\* The records the listing is to return: positions (p-1)*s through
\* min(p*s, n)-1 of the collection, counted from 0.
PageOf(collection, p, s) ==
    [k \in 1..(IF p * s < Len(collection) THEN s
               ELSE IF (p - 1) * s < Len(collection)
                    THEN Len(collection) - (p - 1) * s
                    ELSE 0) |-> collection[(p - 1) * s + k]]

C14_EmptyPage ==
    (last.op = "GetExamples" /\ last.code = "OK") =>
        /\ last.total = Len(last.data)
        /\ PageOf(examples, last.page, last.page_size) = <<>> =>
              last.data = <<>> /\ last.total = 0

====
